---- MODULE Spec2Model ----
(***************************************************************************)
(* Model of the Gaia hub core:                                             *)
(*   - AsyncMutexScope (keyed single-flight lock), utils                   *)
(*   - HubServer (handleRequest, handleDelete, handleListFiles,            *)
(*     handleAuthBump) with the revocation clock and the storage driver    *)
(***************************************************************************)
EXTENDS Integers, Sequences, FiniteSets, TLC

(***************************************************************************)
(* Bounds                                                                  *)
(***************************************************************************)
\* number of distinct mutex ids the callers use
NumKeys == 2
\* total number of lock insertions in one behaviour
MaxAcquire == 3

\* total number of requests the hub receives in one behaviour, per deployment
ScopesRequests == 2
AuthRequests == 2
ArchiveRequests == 3
ProofRequests == 2
RaceRequests == 3
\* timestamps (token iat, oldestValidTimestamp) range over 0..MaxTime
MaxTime == 2
\* prefixes and URLs of the rewrite on its own have up to MaxLen characters
MaxLen == 2

Keys == 1..NumKeys

VARIABLES
  env,        \* the deployment in use: its name (see Config)
  cache,      \* AuthTimestampCache: LRU of [addr, ts], most recently used last
  persisted,  \* driver objects <principal>/.authTimestamp (-1: does not exist)
  store,      \* driver objects, keyed by <<storageTopLevel, path>>
  req,        \* per request slot: the handler invocation in flight
  started,    \* number of requests received so far
  minted,     \* number of historical names generated so far
  bumped,     \* per principal: highest t of a handleAuthBump that completed
  asked,      \* per principal: highest t any handleAuthBump was called with
  rw,         \* the URL rewrite on its own: prefixes, URL and results so far
  rd,         \* the read gateway: one GET or HEAD through fileHandler
  mon,        \* monitorStreamProgress on its own: one stream through the monitor
  nm,         \* the naming functions on their own: a path and what they give
  journal     \* the driver calls that changed or may have changed an object

hubVars ==
  <<env, cache, persisted, store, req, started, minted, bumped, asked, rw, rd, mon,
    nm, journal>>

VARIABLES
  opened,     \* AsyncMutexScope._opened : Set<string>
  owner,      \* per id: state of the promise returned by spawnOwner
  stack,      \* spawnOwner invocations running synchronously, innermost last
  lastCall,   \* the most recent tryAcquire call that came back to its caller
  trues,      \* per id: calls that returned true and are not yet unlocked
  acquired,   \* number of lock insertions so far
  lastUnlock  \* the most recent run of a finally callback

mutexVars == <<opened, owner, stack, lastCall, trues, acquired, lastUnlock>>

vars == <<opened, owner, stack, lastCall, trues, acquired, lastUnlock,
          env, cache, persisted, store, req, started, minted, bumped, asked, rw,
          rd, mon, nm, journal>>

(***************************************************************************)
(* AsyncMutexScope                                                         *)
(***************************************************************************)
NoCall == [id |-> 0, ret |-> "none"]

\* a running spawnOwner: the id it was called for, the held set before the
\* call, and whether it has (directly or not) acquired a key still held
Frame(id) == [id |-> id, before |-> opened, nested |-> FALSE]

openedCount == Cardinality(opened)

\* if (this._opened.has(id)) return false
HasOpened_never(id) == FALSE
HasOpened_any(id) == opened # {}
HasOpened(id) == id \in opened

\* this._opened.add(id), placed before spawnOwner()
LockBeforeInvoke_late(id) == opened
LockBeforeInvoke(id) == opened \cup {id}

\* catch (error) { this._opened.delete(id); throw error }
CatchUnlock_keep(id) == opened
CatchUnlock(id) == opened \ {id}

\* owner.finally(...) fires for a fulfilled and for a rejected owner
FinallyFires_thenOnly(id) == owner[id] = "fulfilled"
FinallyFires(id) == owner[id] \in {"fulfilled", "rejected"}

\* tryAcquire(id, spawnOwner) up to the invocation of spawnOwner.  The call
\* is issued by a fresh task (stack empty) or synchronously from inside a
\* running spawnOwner (stack not empty).
tryAcquire(id) ==
  /\ IF HasOpened(id)
     THEN /\ lastCall' = [id |-> id, ret |-> "false"]
          /\ UNCHANGED <<opened, owner, stack, trues, acquired, lastUnlock>>
     ELSE /\ acquired < MaxAcquire
          /\ opened' = LockBeforeInvoke(id)
          /\ stack' = Append(stack, Frame(id))
          /\ acquired' = acquired + 1
          /\ UNCHANGED <<owner, lastCall, trues, lastUnlock>>
  /\ UNCHANGED hubVars

MarkNested(s) ==
  IF s = <<>> THEN s
  ELSE [s EXCEPT ![Len(s)] = [@ EXCEPT !.nested = TRUE]]

\* spawnOwner() returned its promise: the unlock is attached with finally
\* and tryAcquire returns true.
SpawnOwnerReturns ==
  /\ stack # <<>>
  /\ LET id == stack[Len(stack)].id IN
       /\ owner' = [owner EXCEPT ![id] = "pending"]
       /\ trues' = [trues EXCEPT ![id] = @ + 1]
       /\ lastCall' = [id |-> id, ret |-> "true"]
       /\ stack' = MarkNested(SubSeq(stack, 1, Len(stack) - 1))
       /\ UNCHANGED <<opened, acquired, lastUnlock, hubVars>>

\* spawnOwner() threw synchronously: unlock and re-throw to the caller.
SpawnOwnerThrows ==
  /\ stack # <<>>
  /\ LET id == stack[Len(stack)].id IN
       /\ opened' = CatchUnlock(id)
       /\ lastCall' = [id |-> id, ret |-> "throw"]
       /\ stack' = IF stack[Len(stack)].nested
                   THEN MarkNested(SubSeq(stack, 1, Len(stack) - 1))
                   ELSE SubSeq(stack, 1, Len(stack) - 1)
       /\ UNCHANGED <<owner, trues, acquired, lastUnlock, hubVars>>

\* the owner promise settles, by fulfilment or by rejection
Settle(id, how) ==
  /\ owner[id] = "pending"
  /\ owner' = [owner EXCEPT ![id] = how]
  /\ UNCHANGED <<opened, stack, lastCall, trues, acquired, lastUnlock, hubVars>>

\* the finally callback: this._opened.delete(id).  A promise reaction runs
\* as a job of its own, never in the middle of synchronous code.
OwnerFinally(id) ==
  /\ FinallyFires(id)
  /\ stack = <<>>
  /\ opened' = opened \ {id}
  /\ owner' = [owner EXCEPT ![id] = "none"]
  /\ trues' = [trues EXCEPT ![id] = 0]
  /\ lastUnlock' = [id |-> id, how |-> owner[id]]
  /\ UNCHANGED <<stack, lastCall, acquired, hubVars>>

NextMutex ==
  \/ \E id \in Keys : tryAcquire(id)
  \/ SpawnOwnerReturns
  \/ SpawnOwnerThrows
  \/ \E id \in Keys, how \in {"fulfilled", "rejected"} : Settle(id, how)
  \/ \E id \in Keys : OwnerFinally(id)

(***************************************************************************)
(* HubServer: data                                                         *)
(***************************************************************************)
Principals == {"P1", "P2"}

\* a path or a URL is a sequence of pieces of text; a prefix of the text is
\* a prefix of the sequence
StartsWith(s, p) == Len(p) <= Len(s) /\ SubSeq(s, 1, Len(p)) = p

EndsWith(s, t) == Len(t) <= Len(s) /\ SubSeq(s, Len(s) - Len(t) + 1, Len(s)) = t

AX == <<"a", "/", "x">>
BX == <<"b", "/", "x">>
ADir == <<"a", "/">>

Paths == {AX, BX}

AProfile == <<"a", "/", "profile.json">>

ScopePaths == {ADir, AX}

AuthScopesTypes ==
  {"putFile", "putFilePrefix", "deleteFile", "deleteFilePrefix",
   "putFileArchival", "putFileArchivalPrefix"}

ScopeEntries == [scope : AuthScopesTypes, domain : ScopePaths]

\* what can be wrong with a token before its principal is looked at
TokenFaults ==
  {"BadTokenFormat", "SignatureInvalid", "AssociationInvalid", "Expired", "WrongHub"}

NoToken == [signer |-> "P1", iat |-> 0, scopes |-> {}, fault |-> "none"]

\* the content-length header, as text; <<>> when the header is missing
Digits == {"0", "1", "2", "3", "4", "5", "6", "7", "8", "9"}

DigitVal(c) ==
  CASE c = "0" -> 0 [] c = "1" -> 1 [] c = "2" -> 2 [] c = "3" -> 3
    [] c = "4" -> 4 [] c = "5" -> 5 [] c = "6" -> 6 [] c = "7" -> 7
    [] c = "8" -> 8 [] c = "9" -> 9

NaN == [nan |-> TRUE, val |-> 0]

RECURSIVE DigitPrefix(_, _)
\* value of the longest run of digits at the start of s, acc so far
DigitPrefix(s, acc) ==
  IF s = <<>> \/ Head(s) \notin Digits THEN acc
  ELSE DigitPrefix(Tail(s), 10 * acc + DigitVal(Head(s)))

\* parseInt(text): optional sign, then the leading digits; NaN without digits
ParseInt(s) ==
  LET neg == s # <<>> /\ Head(s) = "-"
      body == IF s # <<>> /\ Head(s) \in {"-", "+"} THEN Tail(s) ELSE s
  IN IF body = <<>> \/ Head(body) \notin Digits THEN NaN
     ELSE [nan |-> FALSE,
           val |-> IF neg THEN 0 - DigitPrefix(body, 0) ELSE DigitPrefix(body, 0)]

IsFinite(n) == ~n.nan

DefaultMaxFileUploadSizeMB == 20

megabytesToBytes(megabytes) == megabytes * 1024 * 1024

MB1 == <<"1", "0", "4", "8", "5", "7", "6">>
MB1Plus == <<"1", "0", "4", "8", "5", "7", "7">>

Headers == {<<>>, <<"0">>, <<"-", "5">>, <<"5">>, <<"5", "x">>, <<"x">>, MB1, MB1Plus}

\* a request body: the lengths of its chunks, and what it holds
Streams ==
  {[chunks |-> <<5>>, data |-> "v1"], [chunks |-> <<3, 2>>, data |-> "v2"],
   [chunks |-> <<3, 5>>, data |-> "v3"],
   [chunks |-> <<1048576>>, data |-> "v4"],
   [chunks |-> <<1048576, 1>>, data |-> "v5"]}

NoStream == [chunks |-> <<>>, data |-> "none"]

RECURSIVE Sum(_)
Sum(c) == IF c = <<>> THEN 0 ELSE Head(c) + Sum(Tail(c))

DriverPrefix == <<"driver://">>
HubPrefix == <<"hub://">>

\* a token carries at most this many scope entries
MaxScopes == 2

ScopeSets == {S \in SUBSET ScopeEntries : Cardinality(S) <= MaxScopes}

ArchivalA == [scope |-> "putFileArchivalPrefix", domain |-> ADir]

Stream1 == [chunks |-> <<5>>, data |-> "v1"]
Stream2 == [chunks |-> <<3, 2>>, data |-> "v2"]

\* a deployment: whitelist = {} stands for a hub with no whitelist configured
\* one request at a time, tokens of P1 with every set of scopes and one
\* token that does not verify
EnvScopes ==
  [whitelist |-> {}, readURL |-> HubPrefix, maxFileUploadSize |-> 1,
   authTimestampCacheSize |-> 1, proofsRequired |-> 1, slots |-> 1, pageSize |-> 2,
   journal |-> FALSE, requests |-> ScopesRequests, addresses |-> {"P1"},
   tokens |-> {[NoToken EXCEPT !.iat = MaxTime, !.scopes = S] : S \in ScopeSets}
                \cup {[NoToken EXCEPT !.fault = "SignatureInvalid"]},
   paths |-> Paths, headers |-> {<<>>, MB1Plus}, streams |-> {Stream1},
   times |-> {MaxTime}]

\* one request at a time, a whitelist, every kind of token without scopes
EnvAuth ==
  [whitelist |-> {"P1"}, readURL |-> <<>>, maxFileUploadSize |-> 0,
   authTimestampCacheSize |-> 1, proofsRequired |-> 0, slots |-> 1, pageSize |-> 2,
   journal |-> FALSE, requests |-> AuthRequests, addresses |-> Principals,
   tokens |-> [signer : Principals, iat : 0..MaxTime, scopes : {{}}, fault : {"none"}]
                \cup {[NoToken EXCEPT !.fault = f] : f \in TokenFaults}
                \cup {[NoToken EXCEPT !.iat = MaxTime, !.scopes = {ArchivalA}]},
   paths |-> {AX}, headers |-> Headers, streams |-> Streams,
   times |-> 0..MaxTime]

\* two requests in flight for the same principal
EnvRace ==
  [whitelist |-> {}, readURL |-> HubPrefix, maxFileUploadSize |-> 1,
   authTimestampCacheSize |-> 1, proofsRequired |-> 0, slots |-> 2, pageSize |-> 2,
   journal |-> TRUE, requests |-> RaceRequests, addresses |-> {"P1"},
   tokens |-> {[NoToken EXCEPT !.iat = 1],
               [NoToken EXCEPT !.iat = 2, !.scopes = {ArchivalA}]},
   paths |-> {AX}, headers |-> {<<>>}, streams |-> {Stream1},
   times |-> {2}]

\* one request at a time on one path, with and without an archival scope
EnvArchive ==
  [whitelist |-> {}, readURL |-> HubPrefix, maxFileUploadSize |-> 1,
   authTimestampCacheSize |-> 1, proofsRequired |-> 0, slots |-> 1, pageSize |-> 2,
   journal |-> TRUE, requests |-> ArchiveRequests, addresses |-> {"P1"},
   tokens |-> {[NoToken EXCEPT !.iat = MaxTime],
               [NoToken EXCEPT !.iat = MaxTime, !.scopes = {ArchivalA}]},
   paths |-> {AX}, headers |-> {<<>>}, streams |-> {Stream1, Stream2},
   times |-> {MaxTime}]

\* one request at a time, one social proof required, a profile and a file
EnvProofs ==
  [whitelist |-> {}, readURL |-> HubPrefix, maxFileUploadSize |-> 1,
   authTimestampCacheSize |-> 1, proofsRequired |-> 1, slots |-> 1, pageSize |-> 2,
   journal |-> FALSE, requests |-> ProofRequests, addresses |-> {"P1"},
   tokens |-> {[NoToken EXCEPT !.iat = MaxTime],
               [NoToken EXCEPT !.iat = MaxTime, !.scopes = {ArchivalA}]},
   paths |-> {AX, AProfile}, headers |-> {<<>>}, streams |-> {Stream1},
   times |-> {MaxTime}]

\* the configuration and the clients of the deployment in use
Config ==
  CASE env = "scopes" -> EnvScopes
    [] env = "auth" -> EnvAuth
    [] env = "race" -> EnvRace
    [] env = "archive" -> EnvArchive
    [] env = "proofs" -> EnvProofs

\* this.maxFileUploadSizeMB = (config.maxFileUploadSize || 20)
maxFileUploadSizeMB ==
  IF Config.maxFileUploadSize = 0 THEN DefaultMaxFileUploadSizeMB
  ELSE Config.maxFileUploadSize

maxFileUploadSizeBytes == megabytesToBytes(maxFileUploadSizeMB)

NoResult == [type |-> "none", msg |-> "", url |-> <<>>, entries |-> <<>>, page |-> FALSE]

IdleReq ==
  [op |-> "idle", pc |-> "idle", address |-> "P1", path |-> <<>>,
   token |-> NoToken, header |-> <<>>, stream |-> NoStream, stat |-> FALSE,
   newTs |-> 0, ts |-> -1, passed |-> {}, calls |-> <<>>, result |-> NoResult,
   floor |-> 0, clockSeen |-> 0, hist |-> <<>>, raw |-> <<>>, thrown |-> FALSE,
   proofs |-> -2]

Slots == DOMAIN req

(***************************************************************************)
(* authentication (scope extraction and token verification)                *)
(***************************************************************************)
Domains(tok, kind) == {e.domain : e \in {x \in tok.scopes : x.scope = kind}}

\* getAuthenticationScopes: six disjoint lists keyed by kind of scope
getAuthenticationScopes(tok) ==
  [writePrefixes |-> Domains(tok, "putFilePrefix"),
   writePaths |-> Domains(tok, "putFile"),
   deletePrefixes |-> Domains(tok, "deleteFilePrefix"),
   deletePaths |-> Domains(tok, "deleteFile"),
   writeArchivalPrefixes |-> Domains(tok, "putFileArchivalPrefix"),
   writeArchivalPaths |-> Domains(tok, "putFileArchival")]

\* validateAuthorizationHeader: the verification order; oldest = -1 is a call
\* without oldestValidTokenTimestamp
validateAuthorizationHeader(tok, address, oldest) ==
  IF tok.fault # "none" THEN tok.fault
  ELSE IF tok.signer # address THEN "PrincipalMismatch"
  ELSE IF oldest # -1 /\ tok.iat < oldest THEN "Revoked"
  ELSE "ok"

\* HubServer.validate: "ok" or the message of the ValidationError
validate_noWhitelist(tok, address, oldest) ==
  validateAuthorizationHeader(tok, address, oldest)
validate(tok, address, oldest) ==
  LET v == validateAuthorizationHeader(tok, address, oldest) IN
    IF v # "ok" THEN v
    ELSE IF Config.whitelist # {} /\ tok.signer \notin Config.whitelist
         THEN "not authorized for writes"
         ELSE "ok"

(***************************************************************************)
(* HubServer: scopes, names                                                *)
(***************************************************************************)
isArchivalRestricted_pathsOnly(scopes) == scopes.writeArchivalPaths # {}
isArchivalRestricted(scopes) ==
  scopes.writeArchivalPaths # {} \/ scopes.writeArchivalPrefixes # {}

\* !!prefixes.find(p => path.startsWith(p)), then !!paths.find(p => path === p)
ScopeMatch_prefixOnly(path, prefixes, paths) == \E p \in prefixes : StartsWith(path, p)
ScopeMatch(path, prefixes, paths) ==
  \/ \E p \in prefixes : StartsWith(path, p)
  \/ \E p \in paths : path = p

\* checkArchivalRestrictions throws when the token is archival and the path
\* matches none of its archival scopes
ArchivalRejects(path, scopes) ==
  /\ isArchivalRestricted(scopes)
  /\ ~ScopeMatch(path, scopes.writeArchivalPrefixes, scopes.writeArchivalPaths)

WriteRejects(path, scopes) ==
  /\ (scopes.writePrefixes # {} \/ scopes.writePaths # {})
  /\ ~ScopeMatch(path, scopes.writePrefixes, scopes.writePaths)

DeleteRejects_never(path, scopes) == FALSE
DeleteRejects(path, scopes) ==
  /\ (scopes.deletePrefixes # {} \/ scopes.deletePaths # {})
  /\ ~ScopeMatch(path, scopes.deletePrefixes, scopes.deletePaths)

\* position of the last "/" of the path, 0 if there is none
RECURSIVE LastSlash(_)
LastSlash(path) ==
  IF path = <<>> THEN 0
  ELSE IF path[Len(path)] = "/" THEN Len(path)
  ELSE LastSlash(SubSeq(path, 1, Len(path) - 1))

getFileName(filePath) == SubSeq(filePath, LastSlash(filePath) + 1, Len(filePath))

\* `.history.${Date.now()}.${generateUniqueID()}.${fileName}` under the same
\* directory; n stands for the pair of time stamp and unique id
getHistoricalFileName_noDir(filePath, n) ==
  <<".history.", ToString(n), ".">> \o getFileName(filePath)
getHistoricalFileName(filePath, n) ==
  LET fileName == getFileName(filePath)
      filePathPrefix == SubSeq(filePath, 1, Len(filePath) - Len(fileName))
  IN filePathPrefix \o <<".history.", ToString(n), ".">> \o fileName

isHistoricalFile_wholePath(filePath) ==
  filePath # <<>> /\ filePath[1] = ".history."
isHistoricalFile(filePath) ==
  LET fileName == getFileName(filePath)
  IN fileName # <<>> /\ fileName[1] = ".history."

\* If a valid content-length is specified check to immediately return error
PreCheckTooLarge_off(len) == FALSE
PreCheckTooLarge(len) ==
  (IsFinite(len) /\ len.val > 0) /\ len.val > maxFileUploadSizeBytes

\* Use the client reported content-length if available, otherwise fall back
\* to the max configured length
maxContentLength_finiteOnly(len) ==
  IF IsFinite(len) THEN len.val ELSE maxFileUploadSizeBytes
maxContentLength(len) ==
  IF IsFinite(len) /\ len.val > 0 THEN len.val ELSE maxFileUploadSizeBytes

\* if (totalBytes > maxContentLength) throw
ExceedsLimit_orEqual(totalBytes, limit) == totalBytes >= limit
ExceedsLimit_never(totalBytes, limit) == FALSE
ExceedsLimit(totalBytes, limit) == totalBytes > limit

\* the progress callback throws on the first chunk that takes the running
\* total above the limit
RECURSIVE Overshoot(_, _, _)
Overshoot(chunks, total, limit) ==
  IF chunks = <<>> THEN FALSE
  ELSE IF ExceedsLimit(total + Head(chunks), limit) THEN TRUE
  ELSE Overshoot(Tail(chunks), total + Head(chunks), limit)

getReadURLPrefix == IF Config.readURL # <<>> THEN Config.readURL ELSE DriverPrefix

\* if (readURLPrefix !== driverPrefix && readURL.startsWith(driverPrefix))
\*   return `${readURLPrefix}${readURL.slice(driverPrefix.length)}`
\* return readURL
rewrite_identity(driverPrefix, readURLPrefix, readURL) == readURL
rewrite_noStartsWith(driverPrefix, readURLPrefix, readURL) ==
  IF readURLPrefix # driverPrefix
  THEN readURLPrefix \o SubSeq(readURL, Len(driverPrefix) + 1, Len(readURL))
  ELSE readURL
rewrite(driverPrefix, readURLPrefix, readURL) ==
  IF readURLPrefix # driverPrefix /\ StartsWith(readURL, driverPrefix)
  THEN readURLPrefix \o SubSeq(readURL, Len(driverPrefix) + 1, Len(readURL))
  ELSE readURL

\* the rewrite of the URL returned by the driver
RewriteURL(readURL) == rewrite(DriverPrefix, getReadURLPrefix, readURL)

\* the rewrite taken alone, over texts of characters
Alphabet == {"a", "b"}

Texts == UNION {[1..n -> Alphabet] : n \in 0..MaxLen}

NoRewrite == [driverPrefix |-> <<>>, readURLPrefix |-> <<>>, readURL |-> <<>>, out |-> <<>>]

\* apply the rewrite to the last result
Rewrite ==
  /\ Len(rw.out) < 2
  /\ rw' = [rw EXCEPT !.out =
              Append(@, rewrite(rw.driverPrefix, rw.readURLPrefix,
                                IF rw.out = <<>> THEN rw.readURL
                                ELSE rw.out[Len(rw.out)]))]
  /\ UNCHANGED <<env, cache, persisted, store, req, started, minted, bumped, asked,
                 rd, mon, nm, journal, mutexVars>>

NextRewrite == Rewrite

(***************************************************************************)
(* The read gateway (reader http.ts)                                       *)
(***************************************************************************)
\* longest filename of a read, in characters
MaxName == 3

NameAlphabet == {"a", "/"}

\* req.params[1] of the route /\/([a-zA-Z0-9-_]+)\/(.+)/ : never empty
FileNames == UNION {[1..n -> NameAlphabet] : n \in 1..MaxName}

NoRead == [filename |-> <<>>, method |-> "GET", pc |-> "idle", key |-> <<>>,
           status |-> 0, body |-> FALSE]

\* if (filename.endsWith('/')) filename = filename.substring(0, length - 1)
StripSlash(filename) ==
  IF EndsWith(filename, <<"/">>) THEN SubSeq(filename, 1, Len(filename) - 1)
  ELSE filename

\* fileHandler up to the await of server.handleGet(address, filename, isGet)
FileHandler ==
  /\ rd.pc = "received"
  /\ rd' = [rd EXCEPT !.pc = "handleGet", !.key = StripSlash(rd.filename)]
  /\ UNCHANGED <<env, cache, persisted, store, req, started, minted, bumped, asked,
                 rw, mon, nm, journal, mutexVars>>

\* the rest of fileHandler: 404 when the file does not exist, 400 when
\* anything threw, else the headers and, for a GET, the body
HandleGet(exists, threw) ==
  /\ rd.pc = "handleGet"
  /\ rd' = [rd EXCEPT !.pc = "done",
                      !.status = IF threw THEN 400 ELSE IF ~exists THEN 404 ELSE 200,
                      !.body = ~threw /\ exists /\ rd.method = "GET"]
  /\ UNCHANGED <<env, cache, persisted, store, req, started, minted, bumped, asked,
                 rw, mon, nm, journal, mutexVars>>

NextReader ==
  \/ FileHandler
  \/ \E exists \in BOOLEAN, threw \in BOOLEAN : HandleGet(exists, threw)

(***************************************************************************)
(* monitorStreamProgress                                                   *)
(***************************************************************************)
\* chunks of the input stream, and bytes of a chunk
MaxChunks == 3
MaxChunkLen == 3

Inputs == UNION {[1..n -> 1..MaxChunkLen] : n \in 0..MaxChunks}

NoMonitor == [input |-> <<>>, pos |-> 1, monitoredContentSize |-> 0,
              progress |-> <<>>, forwarded |-> <<>>, state |-> "idle",
              pipelinePromise |-> "pending"]

\* monitoredContentSize += chunk.length
Accumulate_last(monitoredContentSize, length) == length
Accumulate(monitoredContentSize, length) == monitoredContentSize + length

\* transform: one chunk through the monitor; raises: the progress callback
\* throws on this call.  callback(error) errors the monitored stream and
\* the pipeline of input stream and monitor rejects.
Transform(raises) ==
  /\ mon.state = "flowing"
  /\ mon.pos <= Len(mon.input)
  /\ LET chunk == mon.input[mon.pos]
         size == Accumulate(mon.monitoredContentSize, chunk)
         called == [mon EXCEPT !.monitoredContentSize = size,
                               !.progress = Append(@, <<size, chunk>>)]
     IN mon' = IF raises
               THEN [called EXCEPT !.state = "errored", !.pipelinePromise = "rejected"]
               ELSE [called EXCEPT !.forwarded = Append(@, chunk), !.pos = @ + 1]
  /\ UNCHANGED <<env, cache, persisted, store, req, started, minted, bumped, asked,
                 rw, rd, nm, journal, mutexVars>>

\* the input stream ends: the monitored stream ends and the pipeline resolves
EndOfInput ==
  /\ mon.state = "flowing"
  /\ mon.pos > Len(mon.input)
  /\ mon' = [mon EXCEPT !.state = "ended", !.pipelinePromise = "resolved"]
  /\ UNCHANGED <<env, cache, persisted, store, req, started, minted, bumped, asked,
                 rw, rd, nm, journal, mutexVars>>

NextMonitor ==
  \/ \E raises \in BOOLEAN : Transform(raises)
  \/ EndOfInput

(***************************************************************************)
(* Historical names on their own                                           *)
(***************************************************************************)
\* pieces of a path given to the naming functions
MaxPath == 3

NamePieces == {"a", "/", ".history."}

PathTexts == UNION {[1..n -> NamePieces] : n \in 0..MaxPath}

NoName == [path |-> <<>>, n |-> 0, done |-> FALSE, historicalPath |-> <<>>,
           isHistorical |-> FALSE, isHistoricalAfter |-> FALSE]

\* getHistoricalFileName(path), and isHistoricalFile of the path and of the
\* name generated for it
NameHistorical ==
  /\ ~nm.done
  /\ nm.n # 0
  /\ nm' = [nm EXCEPT !.done = TRUE,
                      !.historicalPath = getHistoricalFileName(nm.path, nm.n),
                      !.isHistorical = isHistoricalFile(nm.path),
                      !.isHistoricalAfter =
                         isHistoricalFile(getHistoricalFileName(nm.path, nm.n))]
  /\ UNCHANGED <<env, cache, persisted, store, req, started, minted, bumped, asked,
                 rw, rd, mon, journal, mutexVars>>

NextNames == NameHistorical

(***************************************************************************)
(* AuthTimestampCache                                                      *)
(***************************************************************************)
CacheHas(a) == \E i \in DOMAIN cache : cache[i].addr = a

CacheGet(a) == (CHOOSE i \in DOMAIN cache : cache[i].addr = a) 

CacheVal(a) == cache[CacheGet(a)].ts

RECURSIVE Without(_, _)
Without(c, a) ==
  IF c = <<>> THEN <<>>
  ELSE IF Head(c).addr = a THEN Without(Tail(c), a)
  ELSE <<Head(c)>> \o Without(Tail(c), a)

\* LRU: the entry becomes the most recently used one; the least recently used
\* one is dropped when the capacity is exceeded
CachePut(c, a, v) ==
  LET n == Append(Without(c, a), [addr |-> a, ts |-> v])
  IN IF Len(n) > Config.authTimestampCacheSize THEN Tail(n) ELSE n

\* the revocation value in force for a principal
Effective(a) ==
  IF CacheHas(a) THEN CacheVal(a)
  ELSE IF persisted[a] = -1 THEN 0 ELSE persisted[a]

(***************************************************************************)
(* Driver (storage back end)                                               *)
(***************************************************************************)
Exists(k) == k \in DOMAIN store

StorePut(st, k, v) == [x \in (DOMAIN st) \cup {k} |-> IF x = k THEN v ELSE st[x]]

StoreDel(st, k) == [x \in (DOMAIN st) \ {k} |-> st[x]]

\* performRename: a move; the destination may be overwritten
StoreRename(st, from, to) == StorePut(StoreDel(st, from), to, st[from])

\* the URL the driver materialises for an object
DriverURL(address, path) == DriverPrefix \o <<address, "/">> \o path

(***************************************************************************)
(* HubServer: the handlers, one action per stretch of code between awaits  *)
(***************************************************************************)
Max(a, b) == IF a >= b THEN a ELSE b

Fail(r, type, msg) ==
  [r EXCEPT !.pc = "done", !.result = [NoResult EXCEPT !.type = type, !.msg = msg]]

Called(r, name) == [r EXCEPT !.calls = Append(@, name)]

\* The fields of a request do not change while it is handled: the model
\* draws the token, the content-length header and the body at the step where
\* the handler first reads them.
NewRequest(op, address) ==
  [IdleReq EXCEPT !.op = op, !.address = address,
                  !.pc = IF op = "bump" THEN "validate" ELSE "getTs",
                  !.floor = bumped[address]]

Receive(s, r) ==
  /\ req[s].op = "idle"
  /\ started < Config.requests
  /\ started' = started + 1
  /\ req' = [req EXCEPT ![s] = r]
  /\ UNCHANGED <<env, rw, rd, mon, nm, journal, cache, persisted, store, minted, bumped, mutexVars>>

\* POST /store/<address>/<path>
handleRequest(s) ==
  \E address \in Config.addresses, path \in Config.paths :
    /\ Receive(s, [NewRequest("upload", address) EXCEPT !.path = path])
    /\ UNCHANGED asked

\* DELETE /delete/<address>/<path>
handleDelete(s) ==
  \E address \in Config.addresses, path \in Config.paths :
    /\ Receive(s, [NewRequest("delete", address) EXCEPT !.path = path])
    /\ UNCHANGED asked

\* POST /list-files/<address>
handleListFiles(s) ==
  \E address \in Config.addresses, stat \in BOOLEAN :
    /\ Receive(s, [NewRequest("list", address) EXCEPT !.stat = stat])
    /\ UNCHANGED asked

\* POST /revoke-all/<address>
handleAuthBump(s) ==
  \E address \in Config.addresses, t \in Config.times :
    /\ Receive(s, [NewRequest("bump", address) EXCEPT !.newTs = t])
    /\ asked' = [asked EXCEPT ![address] = Max(@, t)]

\* where a handler goes on once getAuthTimestamp has returned
AfterGet(r) == IF r.op = "bump" THEN "setCheck" ELSE "validate"

\* getAuthTimestamp: the cached value if there is one
GetAuthTimestamp(s) ==
  LET r == req[s] IN
    /\ r.pc = "getTs"
    /\ IF CacheHas(r.address)
       THEN /\ req' = [req EXCEPT ![s] = [r EXCEPT !.ts = CacheVal(r.address),
                                                   !.pc = AfterGet(r)]]
            /\ cache' = CachePut(cache, r.address, CacheVal(r.address))
       ELSE /\ req' = [req EXCEPT ![s] = [r EXCEPT !.pc = "readTs"]]
            /\ cache' = cache
    /\ UNCHANGED <<env, rw, rd, mon, nm, journal, persisted, store, started, minted, bumped, asked, mutexVars>>

\* getAuthTimestamp: the driver read; DoesNotExist counts as 0
ReadAuthTimestamp(s) ==
  LET r == req[s] IN
    /\ r.pc = "readTs"
    /\ req' = [req EXCEPT ![s] =
                 [Called(r, "performRead") EXCEPT
                    !.ts = IF persisted[r.address] = -1 THEN 0 ELSE persisted[r.address],
                    !.pc = "cacheTs"]]
    /\ UNCHANGED <<env, rw, rd, mon, nm, journal, cache, persisted, store, started, minted, bumped, asked, mutexVars>>

\* getAuthTimestamp: cache the result
CacheAuthTimestamp(s) ==
  LET r == req[s] IN
    /\ r.pc = "cacheTs"
    /\ cache' = CachePut(cache, r.address, r.ts)
    /\ req' = [req EXCEPT ![s] = [r EXCEPT !.pc = AfterGet(r)]]
    /\ UNCHANGED <<env, rw, rd, mon, nm, journal, persisted, store, started, minted, bumped, asked, mutexVars>>

\* the scope check of handleRequest and of handleDelete
ScopeCheck_skipped(r0) == [r0 EXCEPT !.pc = "proof", !.passed = {"auth", "scope"}]
ScopeCheck(r0) ==
  LET r == [r0 EXCEPT !.passed = {"auth"}]
      scopes == getAuthenticationScopes(r.token)
  IN
    IF ArchivalRejects(r.path, scopes)
    THEN Fail(r, "ValidationError", "not authorized to modify")
    ELSE IF r.op = "upload" /\ WriteRejects(r.path, scopes)
    THEN Fail(r, "ValidationError", "not authorized to write")
    ELSE IF r.op = "delete" /\ DeleteRejects(r.path, scopes)
    THEN Fail(r, "ValidationError", "not authorized to delete")
    ELSE [r EXCEPT !.pc = "proof", !.passed = {"auth", "scope"}]

\* this.validate(...) and the synchronous code up to the next await
Validate(s, tok) ==
  LET r == [req[s] EXCEPT !.clockSeen = Effective(req[s].address), !.token = tok]
      v == validate(r.token, r.address, r.ts)
  IN
    /\ r.pc = "validate"
    /\ req' = [req EXCEPT ![s] =
                 IF v # "ok" THEN Fail(r, "ValidationError", v)
                 ELSE IF r.op = "list" THEN [r EXCEPT !.pc = "list", !.passed = {"auth"}]
                 ELSE IF r.op = "bump" THEN [r EXCEPT !.pc = "getTs", !.passed = {"auth"}]
                 ELSE ScopeCheck(r)]
    /\ UNCHANGED <<env, rw, rd, mon, nm, journal, cache, persisted, store, started, minted, bumped, asked, mutexVars>>

ProfileSuffix == <<"/", "profile.json">>

\* if (this.proofsRequired == 0 || filename.endsWith('/profile.json'))
\* return true, before anything is fetched
SkipsProofs(path) ==
  \/ Config.proofsRequired = 0
  \/ EndsWith(path, ProfileSuffix)

\* ProofChecker.checkProofs; valid = -1 stands for a failed fetch or
\* verification, otherwise the number of valid proofs
ProofsPass_strict(path, valid) ==
  \/ SkipsProofs(path)
  \/ (valid # -1 /\ valid > Config.proofsRequired)
ProofsPass(path, valid) ==
  \/ SkipsProofs(path)
  \/ (valid # -1 /\ valid >= Config.proofsRequired)

\* the message of the NotEnoughProofError
ProofError(valid) ==
  IF valid = -1 THEN "Error fetching and verifying social proofs"
  ELSE "Not enough social proofs for gaia hub writes"

\* what handleRequest does between checkProofs and its next driver call
AfterProofUpload(r) ==
  LET len == ParseInt(r.header)
      scopes == getAuthenticationScopes(r.token)
  IN IF PreCheckTooLarge(len)
     THEN Fail(r, "PayloadTooLargeError", "Rejected Content-Length")
     ELSE IF isArchivalRestricted(scopes)
     THEN [r EXCEPT !.pc = "rename", !.hist = getHistoricalFileName(r.path, minted + 1)]
     ELSE [r EXCEPT !.pc = "write"]

\* if (isArchivalRestricted) performRename(...) else performDelete(...)
AfterProofDelete_alwaysDelete(r) == [r EXCEPT !.pc = "delete"]
AfterProofDelete(r) ==
  IF isArchivalRestricted(getAuthenticationScopes(r.token))
  THEN [r EXCEPT !.pc = "rename", !.hist = getHistoricalFileName(r.path, minted + 1)]
  ELSE [r EXCEPT !.pc = "delete"]

\* proofs records what fetchProfile and validateProofs gave, -2 when the
\* profile was not fetched
CheckProofs(s, valid, header) ==
  LET r == [req[s] EXCEPT !.header = header,
                          !.proofs = IF SkipsProofs(req[s].path) THEN -2 ELSE valid]
      ok == [r EXCEPT !.passed = @ \cup {"proof"}]
      n == IF ~ProofsPass(r.path, valid)
           THEN Fail(r, "NotEnoughProofError", ProofError(valid))
           ELSE IF r.op = "upload" THEN AfterProofUpload(ok)
           ELSE AfterProofDelete(ok)
  IN
    /\ r.pc = "proof"
    /\ (r.op # "upload" => header = <<>>)
    /\ req' = [req EXCEPT ![s] = n]
    /\ minted' = IF n.pc = "rename" THEN minted + 1 ELSE minted
    /\ UNCHANGED <<env, rw, rd, mon, nm, journal, cache, persisted, store, started, bumped, asked, mutexVars>>

Done(r, url) ==
  [r EXCEPT !.pc = "done", !.result = [NoResult EXCEPT !.type = "ok", !.url = url]]

\* the versions stored so far, and the entry of the journal for a call
Versions == Cardinality({i \in DOMAIN journal : journal[i].version # 0})

Entry(r, call, ok, version) ==
  [call |-> call, ok |-> ok, version |-> version, address |-> r.address,
   path |-> r.path, data |-> r.stream.data,
   archival |-> isArchivalRestricted(getAuthenticationScopes(r.token))]

\* the journal is kept in the deployments whose properties read it
Journal(e) == IF Config.journal THEN Append(journal, e) ELSE journal

\* catch (error) of the archival rename: DoesNotExist is ignored by an
\* upload; handleDelete has no catch
RenameMissing_rethrow(r) == Fail(r, "DoesNotExist", "rename")
RenameMissing(r) ==
  IF r.op = "upload" THEN [r EXCEPT !.pc = "write"]
  ELSE Fail(r, "DoesNotExist", "rename")

\* driver.performRename(path -> historical name); ioerr: a failure of the
\* back end other than DoesNotExist
PerformRename(s, ioerr) ==
  LET r == Called(req[s], "performRename")
      k == <<r.address, r.path>>
  IN
    /\ req[s].pc = "rename"
    /\ IF ioerr
       THEN /\ req' = [req EXCEPT ![s] = Fail(r, "DriverError", "rename")]
            /\ store' = store
       ELSE IF ~Exists(k)
       THEN /\ req' = [req EXCEPT ![s] = RenameMissing(r)]
            /\ store' = store
       ELSE /\ req' = [req EXCEPT ![s] =
                         IF r.op = "upload" THEN [r EXCEPT !.pc = "write"]
                         ELSE Done(r, <<>>)]
            /\ store' = StoreRename(store, k, <<r.address, r.hist>>)
    /\ journal' = IF r.op = "delete" /\ ~ioerr /\ Exists(k)
                  THEN Journal(Entry(r, "delete", TRUE, 0))
                  ELSE journal
    /\ UNCHANGED <<env, rw, rd, mon, nm, cache, persisted, started, minted, bumped, asked, mutexVars>>

RECURSIVE Forwarded(_, _, _)
\* bytes that went through the monitor before the chunk that overshoots
Forwarded(chunks, total, limit) ==
  IF chunks = <<>> \/ ExceedsLimit(total + Head(chunks), limit) THEN total
  ELSE Forwarded(Tail(chunks), total + Head(chunks), limit)

\* await Promise.all([performWrite, pipelinePromise]) with both rejected:
\* the rejection that settles first is the one thrown
PromiseAllRejection(driverFirst, driverError, pipelineError) ==
  IF driverFirst THEN driverError ELSE pipelineError

\* the monitored stream into driver.performWrite, then the URL rewrite.  A
\* write that fails may or may not leave what it got so far at the path.
\* ioerr: the back end fails on its own, before the monitor sees too much.
\* driverFirst: after the callback has thrown, the driver rejects with an
\* error of its own for the torn-down stream before the pipeline rejects.
PerformWrite(s, ioerr, partial, stream, driverFirst) ==
  LET r == [Called(req[s], "performWrite") EXCEPT !.stream = stream]
      k == <<r.address, r.path>>
      limit == maxContentLength(ParseInt(r.header))
      over == Overshoot(r.stream.chunks, 0, limit)
      part == [data |-> r.stream.data,
               bytes |-> Forwarded(r.stream.chunks, 0, limit), complete |-> FALSE,
               version |-> 0]
  IN
    /\ req[s].pc = "write"
    /\ (driverFirst => over /\ ~ioerr)
    /\ IF over \/ ioerr
       THEN /\ req' = [req EXCEPT ![s] =
                         IF ioerr THEN Fail(r, "DriverError", "write")
                         ELSE [Fail(r, PromiseAllRejection(driverFirst, "DriverError",
                                                           "PayloadTooLargeError"),
                                    IF driverFirst THEN "write"
                                    ELSE "Rejected POST body stream")
                                 EXCEPT !.thrown = TRUE]]
            /\ store' = IF partial THEN StorePut(store, k, part) ELSE store
            /\ journal' = Journal(Entry(r, "write", FALSE, 0))
       ELSE /\ partial = FALSE
            /\ req' = [req EXCEPT ![s] = Done(r, RewriteURL(DriverURL(r.address, r.path)))]
            /\ store' = StorePut(store, k, [data |-> r.stream.data,
                                            bytes |-> Sum(r.stream.chunks),
                                            complete |-> TRUE,
                                            version |-> Versions + 1])
            /\ journal' = Journal(Entry(r, "write", TRUE, Versions + 1))
    /\ UNCHANGED <<env, rw, rd, mon, nm, cache, persisted, started, minted, bumped, asked, mutexVars>>

\* driver.performDelete
PerformDelete(s, ioerr) ==
  LET r == Called(req[s], "performDelete")
      k == <<r.address, r.path>>
  IN
    /\ req[s].pc = "delete"
    /\ IF ioerr
       THEN /\ req' = [req EXCEPT ![s] = Fail(r, "DriverError", "delete")]
            /\ store' = store
       ELSE IF ~Exists(k)
       THEN /\ req' = [req EXCEPT ![s] = Fail(r, "DoesNotExist", "delete")]
            /\ store' = store
       ELSE /\ req' = [req EXCEPT ![s] = Done(r, <<>>)]
            /\ store' = StoreDel(store, k)
    /\ journal' = IF ~ioerr /\ Exists(k)
                  THEN Journal(Entry(r, "delete", TRUE, 0))
                  ELSE journal
    /\ UNCHANGED <<env, rw, rd, mon, nm, cache, persisted, started, minted, bumped, asked, mutexVars>>

NullEntry == <<"<null>">>

NamesOf(address) == {k[2] : k \in {x \in DOMAIN store : x[1] = address}}

Min(a, b) == IF a <= b THEN a ELSE b

\* the pages a driver may return: some of the names, each once, in its order,
\* no more than the configured page size
PagesOf(address) ==
  {q \in UNION {[1..n -> NamesOf(address)] :
                  n \in 0..Min(Config.pageSize, Cardinality(NamesOf(address)))} :
     \A i, j \in DOMAIN q : i # j => q[i] # q[j]}

RECURSIVE FilterHistorical(_)
FilterHistorical(entries) ==
  IF entries = <<>> THEN <<>>
  ELSE IF isHistoricalFile(Head(entries)) THEN FilterHistorical(Tail(entries))
  ELSE <<Head(entries)>> \o FilterHistorical(Tail(entries))

\* Filter historical files from results, with the null marker
FilterPage_noMarker(entries, page, archival) ==
  IF archival /\ Len(entries) > 0 THEN FilterHistorical(entries) ELSE entries
FilterPage(entries, page, archival) ==
  IF archival /\ Len(entries) > 0
  THEN LET f == FilterHistorical(entries)
       IN IF Len(f) = 0 /\ page THEN <<NullEntry>> ELSE f
  ELSE entries

\* driver.listFiles / listFilesStat and the filter
ListFiles(s, ioerr, entries, page) ==
  LET r == Called(req[s], IF req[s].stat THEN "listFilesStat" ELSE "listFiles")
      archival == isArchivalRestricted(getAuthenticationScopes(r.token))
  IN
    /\ req[s].pc = "list"
    /\ entries \in PagesOf(r.address)
    /\ req' = [req EXCEPT ![s] =
                 IF ioerr THEN Fail(r, "DriverError", "list")
                 ELSE [r EXCEPT !.pc = "done", !.raw = entries,
                                !.result = [NoResult EXCEPT
                                   !.type = "ok",
                                   !.entries = FilterPage(entries, page, archival),
                                   !.page = page]]]
    /\ UNCHANGED <<env, rw, rd, mon, nm, journal, cache, persisted, store, started, minted, bumped, asked, mutexVars>>

\* setAuthTimestamp: a value lower than the current one is silently ignored
SetIgnores_never(ts, current) == FALSE
SetIgnores(ts, current) == ts < current

SetCheck(s) ==
  LET r == req[s] IN
    /\ r.pc = "setCheck"
    /\ IF SetIgnores(r.newTs, r.ts)
       THEN /\ req' = [req EXCEPT ![s] = Done(r, <<>>)]
            /\ bumped' = [bumped EXCEPT ![r.address] = Max(@, r.newTs)]
       ELSE /\ req' = [req EXCEPT ![s] = [r EXCEPT !.pc = "setWrite"]]
            /\ bumped' = bumped
    /\ UNCHANGED <<env, rw, rd, mon, nm, journal, cache, persisted, store, started, minted, asked, mutexVars>>

\* setAuthTimestamp: write the driver key
SetWrite(s, ioerr) ==
  LET r == Called(req[s], "performWrite") IN
    /\ req[s].pc = "setWrite"
    /\ IF ioerr
       THEN /\ req' = [req EXCEPT ![s] = Fail(r, "DriverError", "write")]
            /\ persisted' = persisted
       ELSE /\ req' = [req EXCEPT ![s] = [r EXCEPT !.pc = "setCache"]]
            /\ persisted' = [persisted EXCEPT ![r.address] = r.newTs]
    /\ UNCHANGED <<env, rw, rd, mon, nm, journal, cache, store, started, minted, bumped, asked, mutexVars>>

\* setAuthTimestamp: then update the cache
SetCache(s) ==
  LET r == req[s] IN
    /\ r.pc = "setCache"
    /\ cache' = CachePut(cache, r.address, r.newTs)
    /\ req' = [req EXCEPT ![s] = Done(r, <<>>)]
    /\ bumped' = [bumped EXCEPT ![r.address] = Max(@, r.newTs)]
    /\ UNCHANGED <<env, rw, rd, mon, nm, journal, persisted, store, started, minted, asked, mutexVars>>

\* the response has been sent
Respond(s) ==
  /\ req[s].pc = "done"
  /\ req' = [req EXCEPT ![s] = IdleReq]
  /\ UNCHANGED <<env, rw, rd, mon, nm, journal, cache, persisted, store, started, minted, bumped, asked, mutexVars>>

NextHub ==
  \/ \E s \in Slots : handleRequest(s)
  \/ \E s \in Slots : handleDelete(s)
  \/ \E s \in Slots : handleListFiles(s)
  \/ \E s \in Slots : handleAuthBump(s)
  \/ \E s \in Slots : GetAuthTimestamp(s)
  \/ \E s \in Slots : ReadAuthTimestamp(s)
  \/ \E s \in Slots : CacheAuthTimestamp(s)
  \/ \E s \in Slots, tok \in Config.tokens : Validate(s, tok)
  \/ \E s \in Slots, valid \in -1..1, header \in Config.headers \cup {<<>>} :
       CheckProofs(s, valid, header)
  \/ \E s \in Slots, ioerr \in BOOLEAN : PerformRename(s, ioerr)
  \/ \E s \in Slots, ioerr \in BOOLEAN, partial \in BOOLEAN, stream \in Config.streams,
          driverFirst \in BOOLEAN :
       PerformWrite(s, ioerr, partial, stream, driverFirst)
  \/ \E s \in Slots, ioerr \in BOOLEAN : PerformDelete(s, ioerr)
  \/ \E s \in Slots, ioerr \in BOOLEAN, page \in BOOLEAN :
       \E entries \in PagesOf(req[s].address) : ListFiles(s, ioerr, entries, page)
  \/ \E s \in Slots : SetCheck(s)
  \/ \E s \in Slots, ioerr \in BOOLEAN : SetWrite(s, ioerr)
  \/ \E s \in Slots : SetCache(s)
  \/ \E s \in Slots : Respond(s)

(***************************************************************************)
(* Specifications                                                          *)
(***************************************************************************)
\* the state after construction of deployment e: a HubServer over an empty
\* back end and an AsyncMutexScope with nothing held
InitHub(e) ==
  /\ opened = {}
  /\ owner = [k \in Keys |-> "none"]
  /\ stack = <<>>
  /\ lastCall = NoCall
  /\ trues = [k \in Keys |-> 0]
  /\ acquired = 0
  /\ lastUnlock = [id |-> 0, how |-> "none"]
  /\ env = e
  /\ cache = <<>>
  /\ persisted = [p \in Principals |-> -1]
  /\ store = [k \in {} |-> 0]
  /\ req = [s \in 1..Config.slots |-> IdleReq]
  /\ started = 0
  /\ minted = 0
  /\ bumped = [p \in Principals |-> 0]
  /\ asked = [p \in Principals |-> 0]
  /\ rw = NoRewrite
  /\ rd = NoRead
  /\ mon = NoMonitor
  /\ nm = NoName
  /\ journal = <<>>

InitAuth == InitHub("auth")

InitScopes == InitHub("scopes")

InitRace == InitHub("race")

InitArchive == InitHub("archive")

\* a hub that requires no proofs, or one that requires one
InitProofs == \E e \in {"archive", "proofs"} : InitHub(e)

SpecMutex == InitAuth /\ [][NextMutex]_vars

\* every queued promise reaction is eventually run, and synchronous code
\* runs to completion
FairSpecMutex ==
  /\ SpecMutex
  /\ \A id \in Keys : SF_vars(OwnerFinally(id))
  /\ WF_vars(SpawnOwnerReturns \/ SpawnOwnerThrows)

SpecScopes == InitScopes /\ [][NextHub]_vars

SpecAuth == InitAuth /\ [][NextHub]_vars

SpecRace == InitRace /\ [][NextHub]_vars

SpecArchive == InitArchive /\ [][NextHub]_vars

SpecProofs == InitProofs /\ [][NextHub]_vars

\* the rewrite for every pair of prefixes and every URL
InitRewrite ==
  /\ opened = {}
  /\ owner = [k \in Keys |-> "none"]
  /\ stack = <<>>
  /\ lastCall = NoCall
  /\ trues = [k \in Keys |-> 0]
  /\ acquired = 0
  /\ lastUnlock = [id |-> 0, how |-> "none"]
  /\ env = "auth"
  /\ cache = <<>>
  /\ persisted = [p \in Principals |-> -1]
  /\ store = [k \in {} |-> 0]
  /\ req = [s \in 1..Config.slots |-> IdleReq]
  /\ started = 0
  /\ minted = 0
  /\ bumped = [p \in Principals |-> 0]
  /\ asked = [p \in Principals |-> 0]
  /\ journal = <<>>
  /\ rw \in [driverPrefix : Texts, readURLPrefix : Texts, readURL : Texts, out : {<<>>}]
  /\ rd = NoRead
  /\ mon = NoMonitor
  /\ nm = NoName

SpecRewrite == InitRewrite /\ [][NextRewrite]_vars

\* a constructed hub with nothing in flight, but for rw, rd, mon and nm
Constructed ==
  /\ opened = {}
  /\ owner = [k \in Keys |-> "none"]
  /\ stack = <<>>
  /\ lastCall = NoCall
  /\ trues = [k \in Keys |-> 0]
  /\ acquired = 0
  /\ lastUnlock = [id |-> 0, how |-> "none"]
  /\ env = "auth"
  /\ cache = <<>>
  /\ persisted = [p \in Principals |-> -1]
  /\ store = [k \in {} |-> 0]
  /\ req = [s \in 1..Config.slots |-> IdleReq]
  /\ started = 0
  /\ minted = 0
  /\ bumped = [p \in Principals |-> 0]
  /\ asked = [p \in Principals |-> 0]
  /\ journal = <<>>

\* a GET or a HEAD of every filename the route lets through
InitReader ==
  /\ Constructed
  /\ rw = NoRewrite
  /\ rd \in [filename : FileNames, method : {"GET", "HEAD"}, pc : {"received"},
              key : {<<>>}, status : {0}, body : {FALSE}]
  /\ mon = NoMonitor
  /\ nm = NoName

SpecReader == InitReader /\ [][NextReader]_vars

\* every input stream through a fresh monitor
InitMonitor ==
  /\ Constructed
  /\ rw = NoRewrite
  /\ rd = NoRead
  /\ mon \in {[NoMonitor EXCEPT !.input = i, !.state = "flowing"] : i \in Inputs}
  /\ nm = NoName

SpecMonitor == InitMonitor /\ [][NextMonitor]_vars

\* every path, with two generated names
InitNames ==
  /\ Constructed
  /\ rw = NoRewrite
  /\ rd = NoRead
  /\ mon = NoMonitor
  /\ nm \in {[NoName EXCEPT !.path = p, !.n = n] : p \in PathTexts, n \in 1..2}

SpecNames == InitNames /\ [][NextNames]_vars

Spec == SpecAuth

(***************************************************************************)
(* Properties of AsyncMutexScope                                           *)
(***************************************************************************)
TopFrame == stack[Len(stack)]

FrameIds == {stack[i].id : i \in DOMAIN stack}

\* C1: single-flight.  While the owner promise of the first acquirer of k is
\* unsettled, every further tryAcquire(k, f) returns false, does not invoke f
\* and leaves the held set unchanged; at most one call per key has returned
\* true and is not yet unlocked.
C1_SingleFlight ==
  /\ [](\A k \in Keys : trues[k] <= 1 /\ (owner[k] = "pending" => trues[k] = 1))
  /\ [][\A k \in Keys :
         (owner[k] = "pending" /\ lastCall' # lastCall /\ lastCall'.id = k)
           => /\ lastCall'.ret = "false"
              /\ opened' = opened
              /\ stack' = stack
              /\ trues' = trues]_vars

C1_Witness ==
  \E k \in Keys :
    /\ owner[k] = "pending"
    /\ trues[k] = 1
    /\ lastCall = [id |-> k, ret |-> "false"]

\* C2: lock release.  Once the owner promise of k has settled (fulfilled or
\* rejected) k eventually leaves the held set; and if every pending owner
\* eventually settles, the held set is empty again and again.
C2_LockRelease ==
  /\ \A k \in Keys :
       (owner[k] \in {"fulfilled", "rejected"}) ~> (k \notin opened)
  /\ (\A k \in Keys : (owner[k] = "pending") ~> (owner[k] # "pending"))
       => []<>(openedCount = 0)

\* a rejected owner was unlocked and the same key was acquired again
C2_Witness ==
  /\ lastUnlock.how = "rejected"
  /\ lastCall = [id |-> lastUnlock.id, ret |-> "true"]
  /\ acquired >= 2

C4_InsertBeforeRun ==
  /\ [](\A i \in DOMAIN stack : stack[i].id \in opened)
  /\ [][\A k \in FrameIds :
         (lastCall' # lastCall /\ lastCall'.id = k /\ Len(stack') >= Len(stack))
           => (lastCall'.ret = "false" /\ stack' = stack /\ opened' = opened)]_vars
  /\ [][Len(stack') > Len(stack) => stack'[Len(stack')].id \notin FrameIds]_vars

C4_Witness ==
  /\ stack # <<>>
  /\ lastCall = [id |-> TopFrame.id, ret |-> "false"]
  /\ owner[TopFrame.id] = "none"

(***************************************************************************)
(* Properties of HubServer                                                 *)
(***************************************************************************)
Range(f) == {f[i] : i \in DOMAIN f}

\* the scope entries of a token, read off the token itself
HasKind(tok, kinds) == \E e \in tok.scopes : e.scope \in kinds

Covers(tok, prefixKind, pathKind, p) ==
  \E e \in tok.scopes :
    \/ e.scope = prefixKind /\ StartsWith(p, e.domain)
    \/ e.scope = pathKind /\ e.domain = p

WriteCond(tok, p) ==
  \/ ~HasKind(tok, {"putFile", "putFilePrefix"})
  \/ Covers(tok, "putFilePrefix", "putFile", p)

ArchivalCond(tok, p) ==
  \/ ~HasKind(tok, {"putFileArchival", "putFileArchivalPrefix"})
  \/ Covers(tok, "putFileArchivalPrefix", "putFileArchival", p)

\* the request has been authenticated and its scopes have been looked at
ScopeDecided(r) == r.op = "upload" /\ "auth" \in r.passed

Mutations == {"performRename", "performWrite", "performDelete"}

\* C5 as stated: an authenticated upload is accepted by the scope check iff
\* the token has no write scopes, or a write prefix is a prefix of the path,
\* or a write path equals the path.
C5_Original ==
  \A s \in Slots :
    ScopeDecided(req[s]) =>
      (("scope" \in req[s].passed) <=> WriteCond(req[s].token, req[s].path))

\* C5 amended: an authenticated upload is accepted by the scope check iff the
\* write scopes allow the path (none, a matching prefix or the exact path)
\* and the archival scopes allow it too (none, a matching archival prefix or
\* the exact archival path).
C5_ScopeMatch ==
  \A s \in Slots :
    ScopeDecided(req[s]) =>
      (("scope" \in req[s].passed)
         <=> (WriteCond(req[s].token, req[s].path)
                /\ ArchivalCond(req[s].token, req[s].path)))

\* an upload accepted because a putFile scope equals its path, with no
\* matching prefix scope
C5_Witness ==
  \E s \in Slots :
    /\ ScopeDecided(req[s])
    /\ "scope" \in req[s].passed
    /\ HasKind(req[s].token, {"putFile"})
    /\ ~\E e \in req[s].token.scopes :
          e.scope = "putFilePrefix" /\ StartsWith(req[s].path, e.domain)

IsArchivalToken(tok) == HasKind(tok, {"putFileArchival", "putFileArchivalPrefix"})

RenameBeforeWrite(calls) ==
  \E i \in DOMAIN calls :
    /\ calls[i] = "performRename"
    /\ \A j \in DOMAIN calls : calls[j] = "performWrite" => i < j

\* C6 as stated: with an archival scope in the token every upload, whatever
\* its path, attempts the rename before the write (the other checks passing).
C6_Original ==
  \A s \in Slots :
    (/\ ScopeDecided(req[s])
     /\ IsArchivalToken(req[s].token)
     /\ WriteCond(req[s].token, req[s].path)
     /\ req[s].pc = "done"
     /\ req[s].result.type \notin {"NotEnoughProofError", "PayloadTooLargeError"})
      => RenameBeforeWrite(req[s].calls)

\* C6 amended: with an archival scope in the token, an upload whose path is
\* covered by an archival scope attempts the rename before the write, and an
\* upload whose path is covered by none is rejected with ValidationError
\* without any rename or write.
C6_ArchivalOverlay ==
  \A s \in Slots :
    (ScopeDecided(req[s]) /\ IsArchivalToken(req[s].token)) =>
      IF Covers(req[s].token, "putFileArchivalPrefix", "putFileArchival", req[s].path)
      THEN (req[s].pc = "write" \/ "performWrite" \in Range(req[s].calls))
             => RenameBeforeWrite(req[s].calls)
      ELSE /\ req[s].pc = "done"
           /\ req[s].result.type = "ValidationError"
           /\ Range(req[s].calls) \cap Mutations = {}

\* an archival upload, admitted through an archival prefix, that has renamed
\* and written
C6_Witness ==
  \E s \in Slots :
    /\ ScopeDecided(req[s])
    /\ HasKind(req[s].token, {"putFileArchivalPrefix"})
    /\ ~HasKind(req[s].token, {"putFileArchival"})
    /\ req[s].result.type = "ok"
    /\ RenameBeforeWrite(req[s].calls)
    /\ "performWrite" \in Range(req[s].calls)

\* the handler has read the token of the request
TokenRead(r) ==
  r.op \in {"upload", "delete", "list"}
    /\ r.pc \notin {"getTs", "readTs", "cacheTs", "validate"}

DriverWork == Mutations \cup {"listFiles", "listFilesStat"}

\* C7: once handleAuthBump(P, t) has completed, a request for P that starts
\* afterwards with a token of iat < t is rejected with ValidationError and
\* makes no driver write, rename, delete or list; and a token is rejected as
\* revoked only if its iat is below a value some authBump asked for.
C7_RevocationTakesEffect ==
  \A s \in Slots :
    TokenRead(req[s]) =>
      /\ (req[s].token.iat < req[s].floor) =>
            /\ req[s].pc = "done"
            /\ req[s].result.type = "ValidationError"
            /\ Range(req[s].calls) \cap DriverWork = {}
      /\ (req[s].result.msg = "Revoked") => req[s].token.iat < asked[req[s].address]

\* C8: the revocation value in force for a principal never decreases.
C8_ClockMonotonic ==
  [][\A p \in Principals : Effective(p)' >= Effective(p)]_vars

\* C9: a handleAuthBump gets past validation only with a token whose iat is
\* not below the revocation value of the principal at that moment.
C9_BumpFullyAuthenticated ==
  \A s \in Slots :
    (req[s].op = "bump" /\ "auth" \in req[s].passed)
      => req[s].token.iat >= req[s].clockSeen

DeclaredTooLarge(r) ==
  LET n == ParseInt(r.header) IN IsFinite(n) /\ n.val > maxFileUploadSizeBytes

\* C10: an upload whose content-length parses to more than the maximum makes
\* no performRename and no performWrite and, having passed authentication,
\* scopes and proofs, ends at once with PayloadTooLargeError.
C10_DeclaredSizePreCheck ==
  \A s \in Slots :
    (req[s].op = "upload" /\ DeclaredTooLarge(req[s])) =>
      /\ req[s].pc = "done"
      /\ Range(req[s].calls) \cap Mutations = {}
      /\ ("proof" \in req[s].passed => req[s].result.type = "PayloadTooLargeError")

\* an archival upload, covered by its scopes, refused for its declared length
C10_Witness ==
  \E s \in Slots :
    /\ req[s].op = "upload"
    /\ DeclaredTooLarge(req[s])
    /\ IsArchivalToken(req[s].token)
    /\ "proof" \in req[s].passed
    /\ req[s].result.type = "PayloadTooLargeError"

\* the effective limit and the body of an upload that reached the write
Wrote(r) == r.op = "upload" /\ "performWrite" \in Range(r.calls)

Target(r) == <<r.address, r.path>>

\* C11 as stated: an upload whose stream is longer than the limit applied to
\* it ends with PayloadTooLargeError and no object exists at its target.
C11_Original ==
  \A s \in Slots :
    (/\ Wrote(req[s])
     /\ req[s].pc = "done"
     /\ Sum(req[s].stream.chunks) > maxContentLength(ParseInt(req[s].header)))
      => /\ req[s].result.type = "PayloadTooLargeError"
         /\ ~Exists(Target(req[s]))

\* C11 amended: a write whose stream is longer than the limit M applied to it
\* ends with PayloadTooLargeError (or with the error of the driver when the
\* driver rejects first) and stores no complete object: the objects are the ones from before
\* the write, except that the target may hold an incomplete object of at
\* most M bytes of the stream.
C11_SizeEnforcement ==
  [][\A s \in Slots :
       (/\ req[s].pc = "write" /\ req'[s].pc = "done"
        /\ Sum(req'[s].stream.chunks) > maxContentLength(ParseInt(req[s].header)))
         => /\ req'[s].result.type \in {"PayloadTooLargeError", "DriverError"}
            /\ \/ store' = store
               \/ /\ Exists(Target(req[s]))'
                  /\ store' = StorePut(store, Target(req[s]), store'[Target(req[s])])
                  /\ ~store'[Target(req[s])].complete
                  /\ store'[Target(req[s])].data = req'[s].stream.data
                  /\ store'[Target(req[s])].bytes
                       <= maxContentLength(ParseInt(req[s].header))]_vars

\* a body longer than its declared length was refused while the object of an
\* earlier upload is still complete at the target
C11_Witness ==
  \E s \in Slots :
    /\ Wrote(req[s])
    /\ req[s].result.type = "PayloadTooLargeError"
    /\ ~PreCheckTooLarge(ParseInt(req[s].header))
    /\ Sum(req[s].stream.chunks) > maxContentLength(ParseInt(req[s].header))
    /\ Exists(Target(req[s]))
    /\ store[Target(req[s])].complete

\* the limit the claim gives for a content-length header
EffectiveLimit(header) ==
  LET n == ParseInt(header)
  IN IF ~n.nan /\ n.val > 0 THEN n.val
     ELSE megabytesToBytes(maxFileUploadSizeMB)

FallsBack(header) == LET n == ParseInt(header) IN n.nan \/ n.val <= 0

\* C12: the limit applied to the observed bytes is the declared length when
\* it parses to a finite value > 0 and the configured maximum otherwise; a
\* declared length of 0, a negative or an unparsable one never triggers the
\* pre-check; the body is refused as too large only when its total exceeds the
\* limit, is never accepted when it does, and a total equal to the limit is
\* not refused.
C12_EffectiveLimit ==
  /\ [](\A s \in Slots :
         (req[s].op = "upload" /\ req[s].result.msg = "Rejected Content-Length")
           => ~FallsBack(req[s].header))
  /\ [][\A s \in Slots :
         (req[s].pc = "write" /\ req'[s].pc = "done") =>
           LET total == Sum(req'[s].stream.chunks)
               limit == EffectiveLimit(req[s].header)
           IN /\ req'[s].result.type = "PayloadTooLargeError" => total > limit
              /\ req'[s].result.type = "ok" => total <= limit]_vars

\* a body of exactly the declared length was stored
C12_Witness ==
  \E s \in Slots :
    /\ Wrote(req[s])
    /\ req[s].result.type = "ok"
    /\ ~FallsBack(req[s].header)
    /\ Sum(req[s].stream.chunks) = EffectiveLimit(req[s].header)
    /\ Len(req[s].stream.chunks) > 1

DeleteCond(tok, p) ==
  \/ ~HasKind(tok, {"deleteFile", "deleteFilePrefix"})
  \/ Covers(tok, "deleteFilePrefix", "deleteFile", p)

ListCalls == {"listFiles", "listFilesStat"}

Refused == {"ValidationError", "NotEnoughProofError"}

\* C13: an upload or a delete calls performRename, performWrite or
\* performDelete only after its token was validated, its scopes allowed the
\* path and its proofs were accepted; a list calls the driver only after its
\* token was validated; and a request that ends with ValidationError or
\* NotEnoughProofError has made none of these calls and changed no object.
C13_StepOrder ==
  /\ [](\A s \in Slots :
         LET r == req[s] IN
           /\ (r.op \in {"upload", "delete"} /\ Range(r.calls) \cap Mutations # {})
                 => /\ validate(r.token, r.address, r.ts) = "ok"
                    /\ ArchivalCond(r.token, r.path)
                    /\ (r.op = "upload" => WriteCond(r.token, r.path))
                    /\ (r.op = "delete" => DeleteCond(r.token, r.path))
                    /\ "proof" \in r.passed
           /\ (r.op = "list" /\ Range(r.calls) \cap ListCalls # {})
                 => validate(r.token, r.address, r.ts) = "ok"
           /\ (r.result.type \in Refused)
                 => Range(r.calls) \cap (Mutations \cup ListCalls) = {})
  /\ [][\A s \in Slots :
         (req'[s] # req[s] /\ req'[s].result.type \in Refused)
           => store' = store]_vars

\* a delete refused by its scopes, the object still stored
C13_Witness ==
  \E s \in Slots :
    /\ req[s].op = "delete"
    /\ req[s].result.type = "ValidationError"
    /\ req[s].token.fault = "none"
    /\ ~DeleteCond(req[s].token, req[s].path)
    /\ Exists(Target(req[s]))

Historical == {k \in DOMAIN store : isHistoricalFile(k[2])}

\* C14: an upload whose archival rename finds nothing to rename goes on to
\* performWrite; an upload whose rename fails otherwise ends with that error
\* and never calls performWrite; no upload ends with DoesNotExist.
C14_RenameErrors ==
  /\ [](\A s \in Slots :
         req[s].op = "upload" =>
           /\ req[s].result.type # "DoesNotExist"
           /\ (req[s].result.msg = "rename")
                 => /\ req[s].result.type = "DriverError"
                    /\ "performWrite" \notin Range(req[s].calls))
  /\ [][\A s \in Slots :
         (req[s].op = "upload" /\ req[s].pc = "rename" /\ req'[s] # req[s])
           => \/ req'[s].pc = "write"
              \/ /\ req'[s].pc = "done"
                 /\ req'[s].result.type = "DriverError"
                 /\ store' = store]_vars

\* the first archival upload to a path: the rename found nothing, the write
\* went through
C14_Witness ==
  \E s \in Slots :
    /\ Wrote(req[s])
    /\ req[s].result.type = "ok"
    /\ RenameBeforeWrite(req[s].calls)
    /\ Historical = {}

\* C15: the URL a successful upload returns begins with the configured read
\* URL prefix, or with the driver's prefix when none is configured.
C15_ReadURLPrefix ==
  \A s \in Slots :
    (req[s].op = "upload" /\ req[s].result.type = "ok")
      => StartsWith(req[s].result.url,
                    IF Config.readURL # <<>> THEN Config.readURL ELSE DriverPrefix)

\* an upload answered with a URL under the hub's own prefix
C15_Witness ==
  \E s \in Slots :
    /\ req[s].op = "upload"
    /\ req[s].result.type = "ok"
    /\ Config.readURL # <<>>
    /\ Config.readURL # DriverPrefix
    /\ req[s].result.url = Config.readURL \o <<req[s].address, "/">> \o req[s].path

ProperPrefix(p, t) == p # t /\ StartsWith(t, p)

\* C16 as stated: for every driver prefix, hub prefix and URL, rewriting twice
\* gives what rewriting once gives.
C16_Original == Len(rw.out) = 2 => rw.out[2] = rw.out[1]

\* C16 amended: for every driver prefix and hub prefix of which neither is a
\* proper prefix of the other, and every URL, rewriting twice gives what
\* rewriting once gives.
C16_RewriteIdempotent ==
  (/\ Len(rw.out) = 2
   /\ ~ProperPrefix(rw.driverPrefix, rw.readURLPrefix)
   /\ ~ProperPrefix(rw.readURLPrefix, rw.driverPrefix))
    => rw.out[2] = rw.out[1]

\* a URL that the first rewrite changed and the second left alone
C16_Witness ==
  /\ Len(rw.out) = 2
  /\ ~ProperPrefix(rw.driverPrefix, rw.readURLPrefix)
  /\ ~ProperPrefix(rw.readURLPrefix, rw.driverPrefix)
  /\ rw.out[1] # rw.readURL
  /\ rw.out[2] = rw.out[1]

\* h is a historical name of p: p's directory, then .history.<n>.<p's name>
SiblingHistory(h, p) ==
  \E n \in 1..minted :
    h = SubSeq(p, 1, Len(p) - 1) \o <<".history.", ToString(n), ".">> \o <<p[Len(p)]>>

ArchivalWrite(e) == e.call = "write" /\ e.ok /\ e.archival

\* all that happened to the objects is two successful archival uploads to
\* one path, the second one after the first has ended
RoundTrip ==
  /\ Len(journal) = 2
  /\ ArchivalWrite(journal[1]) /\ ArchivalWrite(journal[2])
  /\ journal[1].address = journal[2].address
  /\ journal[1].path = journal[2].path
  /\ \A s \in Slots : req[s].pc # "write"

\* C17: after two successive successful archival uploads to p, starting from
\* no object at p, p holds the second content, exactly one other object
\* exists under the principal, it is a .history. sibling of p and holds the
\* first content; a complete list without archival scopes shows both and a
\* complete list with archival scopes shows p only.
C17_ArchivalRoundTrip ==
  RoundTrip =>
    LET k == <<journal[1].address, journal[1].path>>
        names == {x \in DOMAIN store : x[1] = k[1]}
    IN /\ Exists(k)
       /\ store[k].complete
       /\ store[k].version = journal[2].version
       /\ store[k].data = journal[2].data
       /\ \E h \in names \ {k} :
            /\ names = {k, h}
            /\ SiblingHistory(h[2], k[2])
            /\ store[h].complete
            /\ store[h].version = journal[1].version
            /\ store[h].data = journal[1].data
       /\ \A s \in Slots :
            (/\ req[s].op = "list" /\ req[s].result.type = "ok"
             /\ req[s].address = k[1]
             /\ Range(req[s].raw) = {x[2] : x \in names})
              => IF IsArchivalToken(req[s].token)
                 THEN req[s].result.entries = <<k[2]>>
                 ELSE Range(req[s].result.entries) = {x[2] : x \in names}

\* two different contents were uploaded and a list with an archival scope
\* got both names from the driver
C17_Witness ==
  /\ RoundTrip
  /\ journal[1].data # journal[2].data
  /\ \E s \in Slots :
       /\ req[s].op = "list" /\ req[s].result.type = "ok"
       /\ IsArchivalToken(req[s].token)
       /\ Len(req[s].raw) = 2
       /\ req[s].result.entries = <<journal[1].path>>

\* the object stored by the write e is still there, at its path or at a
\* historical name of it
Preserved(e) ==
  \E k \in DOMAIN store :
    /\ k[1] = e.address
    /\ k[2] = e.path \/ SiblingHistory(k[2], e.path)
    /\ store[k].complete
    /\ store[k].version = e.version

\* C18: as long as the objects are touched by archival uploads only, in any
\* interleaving, every content an upload has successfully written is stored
\* at its path or at a historical name of it.
C18_EveryVersionKept ==
  (\A i \in DOMAIN journal : journal[i].call = "write" /\ journal[i].archival)
    => \A i \in DOMAIN journal : journal[i].ok => Preserved(journal[i])

\* the filename component of the entry starts with .history.
HistoryNamed(e) ==
  \E i \in DOMAIN e :
    /\ e[i] = ".history."
    /\ i = 1 \/ e[i - 1] = "/"
    /\ \A j \in DOMAIN e : j > i => e[j] # "/"

Visible(e) == ~HistoryNamed(e)

\* C19: with archival scopes in the token the page returned by a list is the
\* driver's page without the entries named .history.*, in the driver's order
\* and with the driver's cursor, and it is exactly [null] when that leaves
\* nothing of a page that had entries and a cursor; without archival scopes
\* it is the driver's page.
C19_ListFilter ==
  \A s \in Slots :
    (req[s].op = "list" /\ req[s].result.type = "ok") =>
      LET raw == req[s].raw
          got == req[s].result.entries
      IN IF IsArchivalToken(req[s].token)
         THEN IF raw # <<>> /\ SelectSeq(raw, Visible) = <<>> /\ req[s].result.page
              THEN got = <<NullEntry>>
              ELSE /\ got = SelectSeq(raw, Visible)
                   /\ \A i \in DOMAIN got : ~HistoryNamed(got[i])
         ELSE got = raw

\* a page of historical names only, with a cursor, answered by [null]
C19_Witness ==
  \E s \in Slots :
    /\ req[s].op = "list" /\ req[s].result.type = "ok"
    /\ IsArchivalToken(req[s].token)
    /\ req[s].raw # <<>>
    /\ req[s].result.page
    /\ req[s].result.entries = <<NullEntry>>

\* C20: with a whitelist configured, an upload, a delete or an authBump whose
\* token is signed by a principal outside the whitelist ends with
\* ValidationError at validation, having called no performRename,
\* performWrite or performDelete (the revocation value is changed by a
\* performWrite only).
C20_WriterWhitelist ==
  \A s \in Slots :
    (/\ Config.whitelist # {}
     /\ req[s].op \in {"upload", "delete", "bump"}
     /\ req[s].token.signer \notin Config.whitelist)
      => /\ req[s].pc = "done"
         /\ req[s].result.type = "ValidationError"
         /\ req[s].passed = {}
         /\ Range(req[s].calls) \cap Mutations = {}

\* an authBump of a principal for itself, with a token in order, refused
\* because the principal is not on the whitelist
C20_Witness ==
  \E s \in Slots :
    /\ req[s].op = "bump"
    /\ req[s].token.signer = req[s].address
    /\ req[s].token.fault = "none"
    /\ req[s].token.signer \notin Config.whitelist
    /\ req[s].result.msg = "not authorized for writes"

\* the driver calls of a request that change objects, in order
MutationsOf(r) == SelectSeq(r.calls, LAMBDA c : c \in Mutations)

\* C21: a delete that passed validation, scopes and proofs makes exactly one
\* performRename to a historical name and no performDelete when the token has
\* archival scopes, and exactly one performDelete otherwise; the renamed
\* content is then stored under the historical name; and when the driver
\* finds no object the delete ends with DoesNotExist.
C21_ArchivalDelete ==
  /\ [](\A s \in Slots :
         (req[s].op = "delete" /\ req[s].pc = "done" /\ "proof" \in req[s].passed)
           => /\ MutationsOf(req[s]) =
                   IF IsArchivalToken(req[s].token) THEN <<"performRename">>
                   ELSE <<"performDelete">>
              /\ req[s].result.type \in {"ok", "DoesNotExist", "DriverError"})
  /\ [][\A s \in Slots :
         (req[s].op = "delete" /\ req[s].pc \in {"rename", "delete"}
            /\ req'[s].pc = "done")
           => LET k == Target(req[s]) IN
                /\ ~Exists(k) => /\ req'[s].result.type \in {"DoesNotExist", "DriverError"}
                                 /\ store' = store
                /\ req'[s].result.type = "ok"
                     => /\ Exists(k) /\ ~Exists(k)'
                        /\ IsArchivalToken(req[s].token)
                             => \E h \in DOMAIN store' :
                                  /\ h \notin DOMAIN store
                                  /\ h[1] = k[1]
                                  /\ SiblingHistory(h[2], k[2])'
                                  /\ store'[h] = store[k]
                                  /\ store' = StorePut(StoreDel(store, k), h, store[k])
                        /\ ~IsArchivalToken(req[s].token)
                             => store' = StoreDel(store, k)]_vars

\* an archival delete answered with success, the content under a historical
\* name and nothing at the path
C21_Witness ==
  \E s \in Slots :
    /\ req[s].op = "delete" /\ req[s].result.type = "ok"
    /\ IsArchivalToken(req[s].token)
    /\ ~Exists(Target(req[s]))
    /\ \E h \in DOMAIN store :
         SiblingHistory(h[2], req[s].path) /\ store[h].complete

DeleteDecided(r) == r.op = "delete" /\ "auth" \in r.passed

\* C22 as stated: an authenticated delete is accepted by the scope check iff
\* the token has no delete scopes, or a delete prefix is a prefix of the
\* path, or a delete path equals the path.
C22_Original ==
  \A s \in Slots :
    DeleteDecided(req[s]) =>
      (("scope" \in req[s].passed) <=> DeleteCond(req[s].token, req[s].path))

\* C22 amended: an authenticated delete is accepted by the scope check iff
\* the delete scopes allow the path (none, a matching prefix or the exact
\* path) and the archival scopes allow it too (none, a matching archival
\* prefix or the exact archival path).
C22_DeleteScopeMatch ==
  \A s \in Slots :
    DeleteDecided(req[s]) =>
      (("scope" \in req[s].passed)
         <=> (DeleteCond(req[s].token, req[s].path)
                /\ ArchivalCond(req[s].token, req[s].path)))

\* a delete accepted because a deleteFile scope equals its path, with no
\* matching prefix scope
C22_Witness ==
  \E s \in Slots :
    /\ DeleteDecided(req[s])
    /\ "scope" \in req[s].passed
    /\ HasKind(req[s].token, {"deleteFile"})
    /\ ~\E e \in req[s].token.scopes :
          e.scope = "deleteFilePrefix" /\ StartsWith(req[s].path, e.domain)

\* C23: once the callback of the monitor has thrown for an overshoot, the
\* upload ends with PayloadTooLargeError, whichever of the driver's promise
\* and the pipeline's promise settles first.
C23_SingleOriginatingError ==
  \A s \in Slots :
    req[s].thrown => req[s].result.type = "PayloadTooLargeError"

\* the proof check of an upload or a delete has returned or thrown
ProofDecided(r) ==
  /\ r.op \in {"upload", "delete"}
  /\ ("proof" \in r.passed \/ r.result.type = "NotEnoughProofError")

Exempt(r) ==
  \/ Config.proofsRequired = 0
  \/ (/\ Len(r.path) >= 2
      /\ r.path[Len(r.path)] = "profile.json"
      /\ r.path[Len(r.path) - 1] = "/")

\* C24: checkProofs succeeds with nothing fetched when proofsRequired is 0 or
\* the path ends with /profile.json; otherwise it fetches, and succeeds iff the
\* fetch and the verification succeed and give at least proofsRequired valid
\* proofs; every other outcome is a NotEnoughProofError, and no upload or
\* delete mutates the back end without having passed the check.
C24_ProofGate ==
  \A s \in Slots :
    LET r == req[s] IN
      /\ ProofDecided(r) =>
            /\ Exempt(r) => (r.proofs = -2 /\ "proof" \in r.passed)
            /\ ~Exempt(r) =>
                  /\ r.proofs \in -1..1
                  /\ ("proof" \in r.passed) <=> (r.proofs >= Config.proofsRequired)
            /\ "proof" \notin r.passed =>
                  /\ r.pc = "done"
                  /\ r.result.type = "NotEnoughProofError"
      /\ (r.op \in {"upload", "delete"} /\ "proof" \notin r.passed)
            => Range(r.calls) \cap Mutations = {}

\* the profile was written with no proof fetched, and a later write of a file
\* is refused for too few proofs
C24_Witness ==
  \E s \in Slots :
    /\ env = "proofs"
    /\ <<"P1", AProfile>> \in DOMAIN store
    /\ req[s].path = AX
    /\ req[s].proofs = 0
    /\ req[s].result.type = "NotEnoughProofError"

\* C25: the key fileHandler passes to handleGet never ends with "/".
C25_KeyNormalised ==
  rd.pc \in {"handleGet", "done"} =>
    (rd.key = <<>> \/ rd.key[Len(rd.key)] # "/")

\* the sum of the first n chunks of the input
SeenBytes(n) == Sum(SubSeq(mon.input, 1, n))

\* C26: the monitor forwards the chunks unchanged and in order and calls the
\* callback once per chunk with the bytes seen so far, this chunk included;
\* a chunk on which the callback raises is not forwarded, the stream is then
\* errored and the pipeline promise rejected, and nothing passes afterwards;
\* the promise resolves only when every chunk went through.
C26_StreamMonitor ==
  /\ [](/\ mon.forwarded = SubSeq(mon.input, 1, Len(mon.forwarded))
        /\ \A i \in DOMAIN mon.progress :
              mon.progress[i] = <<SeenBytes(i), mon.input[i]>>
        /\ mon.state = "flowing" =>
              /\ Len(mon.progress) = Len(mon.forwarded)
              /\ mon.pipelinePromise = "pending"
        /\ mon.state = "errored" =>
              /\ Len(mon.progress) = Len(mon.forwarded) + 1
              /\ mon.pipelinePromise = "rejected"
        /\ mon.state = "ended" =>
              /\ mon.forwarded = mon.input
              /\ Len(mon.progress) = Len(mon.input)
              /\ mon.pipelinePromise = "resolved")
  /\ [][mon.state = "errored" => mon' = mon]_vars

\* two chunks went through and the callback raised on the third
C26_Witness ==
  /\ mon.state = "errored"
  /\ mon.input = <<1, 2, 3>>
  /\ mon.forwarded = <<1, 2>>
  /\ mon.progress = <<<<1, 1>>, <<3, 2>>, <<6, 3>>>>

\* the directory of a path: all of it up to its last "/"
DirOf(p) ==
  LET i == CHOOSE j \in 0..Len(p) :
             /\ (j = 0 \/ p[j] = "/")
             /\ \A k \in (j + 1)..Len(p) : p[k] # "/"
  IN SubSeq(p, 1, i)

NameOf(p) == SubSeq(p, Len(DirOf(p)) + 1, Len(p))

\* C27: the historical name of a path is the directory of the path followed
\* by .history.<stamp>.<name of the path>; isHistoricalFile accepts it; and
\* isHistoricalFile holds of a path exactly when its last component starts
\* with .history.
C27_HistoricalNaming ==
  nm.done =>
    /\ nm.historicalPath =
          DirOf(nm.path) \o <<".history.", ToString(nm.n), ".">> \o NameOf(nm.path)
    /\ DirOf(nm.historicalPath) = DirOf(nm.path)
    /\ nm.isHistoricalAfter
    /\ nm.isHistorical <=> HistoryNamed(nm.path)

\* a historical file in a directory gets a historical name of its own
C27_Witness ==
  /\ nm.done
  /\ nm.path = <<"a", "/", ".history.">>
  /\ nm.isHistorical
  /\ nm.historicalPath = <<"a", "/", ".history.", "1", ".", ".history.">>

\* the token of the request is in order for a bump of its address: it
\* verifies, it is signed by the address, and the signer is on the whitelist
ValidBump(r) ==
  /\ r.op = "bump"
  /\ r.token.fault = "none"
  /\ r.token.signer = r.address
  /\ (Config.whitelist = {} \/ r.token.signer \in Config.whitelist)

Owners(k) ==
  Cardinality({i \in DOMAIN stack : stack[i].id = k})
    + (IF owner[k] # "none" THEN 1 ELSE 0)

\* C29: a step of tryAcquire(k, f) changes the held set at k only; the call
\* returns false exactly when k is held, whatever else is held; and a key is
\* held exactly when it has an owner whose release has not run, and then it
\* has one.
C29_KeyIndependence ==
  /\ [](\A k \in Keys : Owners(k) = IF k \in opened THEN 1 ELSE 0)
  /\ [][(stack' # stack \/ lastCall' # lastCall) =>
         LET k == IF Len(stack') > Len(stack) THEN stack'[Len(stack')].id
                  ELSE lastCall'.id
         IN /\ opened' \ {k} = opened \ {k}
            /\ Len(stack') > Len(stack) => k \notin opened
            /\ (lastCall' # lastCall /\ lastCall'.ret = "false") => k \in opened]_vars

\* one key is held by a pending owner while another key was acquired and a
\* further tryAcquire of that other key returned false
C29_Witness ==
  \E j, k \in Keys :
    /\ j # k
    /\ owner[j] = "pending"
    /\ k \in opened
    /\ lastCall = [id |-> k, ret |-> "false"]

====
